---------------------------- MODULE Spec2Model ----------------------------
(***************************************************************************)
(* Model of the POST handler of src/app/api/route.ts: one request goes     *)
(* through body reading and validation, question segmentation and prompt   *)
(* building, one Evaluator call, response extraction, JSON parsing and     *)
(* aggregation into the report.                                            *)
(*                                                                         *)
(* Text is a sequence of characters, each character a one-character        *)
(* string.  Code points outside ASCII are written by name: "U+2022" is     *)
(* the bullet, "U+2018"/"U+2019" the curly single quotes, "U+201C"/        *)
(* "U+201D" the curly double quotes, "U+0060" the grave accent of a code   *)
(* fence.  In Evaluator text the capital letters of ObjLetters each stand  *)
(* for the text of one JSON object literal without brackets inside (ObjLit *)
(* gives the object).                                                      *)
(***************************************************************************)
EXTENDS Integers, Sequences, FiniteSets, TLC

VARIABLES pc, body, evaluator, calls, questions, userPrompt, candidate,
          parsedEvaluations, out

vars == <<pc, body, evaluator, calls, questions, userPrompt, candidate,
          parsedEvaluations, out>>

\* ------------------------------------------------------------------ bounds

\* Longest question block, in characters, of the segmentation inputs.
MaxBlockLen == 4
\* Number of pieces an Evaluator text of the extraction inputs is made of.
MaxPieces == 3
\* Longest array of evaluations of the exhaustive aggregation inputs.
MaxEvals == 3
\* Longest array of evaluations of the two-kind aggregation inputs.
MaxRun == 40

\* ------------------------------------------------------------ text helpers

Max(S) == CHOOSE x \in S : \A y \in S : y <= x

Min(S) == CHOOSE x \in S : \A y \in S : x <= y

\* Whitespace of the regular expression class \s and of String.trim.
IsWs(c) == c \in {" ", "\n", "\t", "\r"}

RECURSIVE Concat(_)
\* The concatenation of a sequence of texts.
Concat(ss) == IF ss = <<>> THEN <<>> ELSE Head(ss) \o Concat(Tail(ss))

RECURSIVE Join(_, _)
\* Array.prototype.join: the texts with sep between neighbours.
Join(ss, sep) ==
  IF ss = <<>> THEN <<>>
  ELSE IF Len(ss) = 1 THEN ss[1]
  ELSE ss[1] \o sep \o Join(Tail(ss), sep)

\* String.prototype.trim.
Trim(s) ==
  LET keep == {i \in 1..Len(s) : ~IsWs(s[i])}
  IN IF keep = {} THEN <<>> ELSE SubSeq(s, Min(keep), Max(keep))

DigitChars == <<"0", "1", "2", "3", "4", "5", "6", "7", "8", "9">>

RECURSIVE IntToStr(_)
\* The decimal text of a natural number, as a template literal prints it.
IntToStr(n) ==
  IF n < 10 THEN <<DigitChars[n + 1]>>
  ELSE IntToStr(n \div 10) \o <<DigitChars[(n % 10) + 1]>>

\* ------------------------------------------------- sanitizer and segmenter

SanitizeChar(c) ==
  IF c = "U+2022" THEN "-"
  ELSE IF c \in {"U+2018", "U+2019"} THEN "'"
  ELSE IF c \in {"U+201C", "U+201D"} THEN "\""
  ELSE c

\* sanitize: the three global replaces, each of one character by one.
sanitize(txt) == [i \in 1..Len(txt) |-> SanitizeChar(txt[i])]

\* The last index of the match of /\n\s*\n/ that starts at q, 0 when none
\* starts there: the greedy \s* backtracks to the last line feed of the
\* whitespace run after q.
SepMatchEnd(s, q) ==
  IF q > Len(s) \/ s[q] # "\n" THEN 0
  ELSE LET ends == {j \in (q + 1)..Len(s) :
                      s[j] = "\n" /\ \A k \in (q + 1)..j : IsWs(s[k])}
       IN IF ends = {} THEN 0 ELSE Max(ends)

RECURSIVE SplitFrom(_, _)
\* String.prototype.split with the separator /\n\s*\n/, from the start p of
\* the current chunk: the chunk ends where the next separator starts.
SplitFrom(s, p) ==
  LET starts == {q \in p..Len(s) : SepMatchEnd(s, q) # 0}
  IN IF starts = {} THEN <<SubSeq(s, p, Len(s))>>
     ELSE <<SubSeq(s, p, Min(starts) - 1)>>
            \o SplitFrom(s, SepMatchEnd(s, Min(starts)) + 1)

SplitBlocks(s) == SplitFrom(s, 1)

\* The filter callback of the segmenter: q.trim().length > 0.
NonBlank(q) == Len(Trim(q)) > 0

\* questions: split, map(sanitize), filter(non-blank); the chunks kept are
\* the sanitized chunks themselves.
Segment(set1) ==
  LET chunks == SplitBlocks(set1)
      mapped == [i \in 1..Len(chunks) |-> sanitize(chunks[i])]
  IN SelectSeq(mapped, NonBlank)

\* userPrompt: "i. question" for each question from 1, joined by "\n".
BuildUserPrompt(qs) ==
  Join([i \in 1..Len(qs) |-> IntToStr(i) \o <<".", " ">> \o qs[i]], <<"\n">>)


\* -------------------------------------------------------- response extractor

UpperChars == <<"A", "B", "C", "D", "E", "F", "G", "H", "I", "J", "K", "L", "M",
                "N", "O", "P", "Q", "R", "S", "T", "U", "V", "W", "X", "Y", "Z">>

LowerChars == <<"a", "b", "c", "d", "e", "f", "g", "h", "i", "j", "k", "l", "m",
                "n", "o", "p", "q", "r", "s", "t", "u", "v", "w", "x", "y", "z">>

\* The case folding of the i flag, on the letters of ASCII.
Fold(c) ==
  IF \E i \in 1..26 : UpperChars[i] = c
  THEN LowerChars[CHOOSE i \in 1..26 : UpperChars[i] = c]
  ELSE c

\* Whether pat occurs in s at index i; fold: compare case-insensitively.
MatchesAt(s, i, pat, fold) ==
  /\ i + Len(pat) - 1 <= Len(s)
  /\ \A k \in 1..Len(pat) :
       IF fold THEN Fold(s[i + k - 1]) = Fold(pat[k]) ELSE s[i + k - 1] = pat[k]

RECURSIVE RemoveFrom(_, _, _, _)
\* String.prototype.replace(/pat/g, ""): the occurrences found from the
\* left, none overlapping another, are removed.
RemoveFrom(s, i, pat, fold) ==
  LET hits == {j \in i..Len(s) : MatchesAt(s, j, pat, fold)}
  IN IF hits = {} THEN SubSeq(s, i, Len(s))
     ELSE SubSeq(s, i, Min(hits) - 1)
            \o RemoveFrom(s, Min(hits) + Len(pat), pat, fold)

FenceJson == <<"U+0060", "U+0060", "U+0060", "j", "s", "o", "n">>

Fence == <<"U+0060", "U+0060", "U+0060">>

\* raw.replace(/FENCEjson/gi, "").replace(/FENCE/g, "").trim(), with FENCE
\* written here for the three grave accents of a code fence.
StripFences(raw) ==
  Trim(RemoveFrom(RemoveFrom(raw, 1, FenceJson, TRUE), 1, Fence, FALSE))

\* raw.match(/\[[\s\S]*\]/): from the first "[" to the last "]" after it;
\* <<0, 0>> when there is no match.
ArrayMatch(s) ==
  LET opens == {i \in 1..Len(s) : s[i] = "["}
  IN IF opens = {} THEN <<0, 0>>
     ELSE LET i == Min(opens)
              closes == {j \in (i + 1)..Len(s) : s[j] = "]"}
          IN IF closes = {} THEN <<0, 0>> ELSE <<i, Max(closes)>>

\* The text handed to JSON.parse for a message content that is a string:
\* an empty content is falsy and replaced by "[]" before anything else.
Extract(content) ==
  LET raw0 == IF content = <<>> THEN <<"[", "]">> ELSE content
      raw == StripFences(raw0)
      m == ArrayMatch(raw)
  IN IF m[1] # 0 THEN SubSeq(raw, m[1], m[2]) ELSE raw


\* ---------------------------------------------------------------- JSON.parse

\* Values of JavaScript, as far as the handler meets them.
Undefined == [ty |-> "undefined"]

JNull == [ty |-> "null"]

JNum(x) == [ty |-> "number", num |-> x]

JStr(x) == [ty |-> "string", str |-> x]

JBool(x) == [ty |-> "boolean", bool |-> x]

JArr(xs) == [ty |-> "array", items |-> xs]

JObj(c) == [ty |-> "object", lit |-> c]

\* The letters that stand for object literals in Evaluator text.
ObjLetters == {"A", "B", "C", "D", "E", "F"}

\* The object each letter stands for; a field left out of a literal reads
\* as undefined.  The score fields of these literals hold a number or are
\* left out.
\*   A  {"overallScore":80,"spellingScore":90,"grammarScore":71,
\*       "clarityScore":80,"bloom":"Apply","higherOrder":true}
\*   B  {"overallScore":65,"spellingScore":60,"grammarScore":70,
\*       "clarityScore":55,"bloom":"Recall","higherOrder":false}
\*   C  {"overallScore":100,"spellingScore":100,"grammarScore":100,
\*       "clarityScore":100,"bloom":"2","higherOrder":true}
\*   D  {"overallScore":0,"spellingScore":0,"grammarScore":0,
\*       "clarityScore":0,"bloom":"1","higherOrder":false}
\*   E  {}
\*   F  {"overallScore":50,"spellingScore":50,"grammarScore":50,
\*       "clarityScore":50,"bloom":"","higherOrder":true}
ObjLit(c) ==
  CASE c = "A" -> [overallScore |-> JNum(80), spellingScore |-> JNum(90),
                   grammarScore |-> JNum(71), clarityScore |-> JNum(80),
                   bloom |-> JStr(<<"A", "p", "p", "l", "y">>),
                   higherOrder |-> JBool(TRUE)]
    [] c = "B" -> [overallScore |-> JNum(65), spellingScore |-> JNum(60),
                   grammarScore |-> JNum(70), clarityScore |-> JNum(55),
                   bloom |-> JStr(<<"R", "e", "c", "a", "l", "l">>),
                   higherOrder |-> JBool(FALSE)]
    [] c = "C" -> [overallScore |-> JNum(100), spellingScore |-> JNum(100),
                   grammarScore |-> JNum(100), clarityScore |-> JNum(100),
                   bloom |-> JStr(<<"2">>), higherOrder |-> JBool(TRUE)]
    [] c = "D" -> [overallScore |-> JNum(0), spellingScore |-> JNum(0),
                   grammarScore |-> JNum(0), clarityScore |-> JNum(0),
                   bloom |-> JStr(<<"1">>), higherOrder |-> JBool(FALSE)]
    [] c = "E" -> [overallScore |-> Undefined, spellingScore |-> Undefined,
                   grammarScore |-> Undefined, clarityScore |-> Undefined,
                   bloom |-> Undefined, higherOrder |-> Undefined]
    [] OTHER   -> [overallScore |-> JNum(50), spellingScore |-> JNum(50),
                   grammarScore |-> JNum(50), clarityScore |-> JNum(50),
                   bloom |-> JStr(<<>>), higherOrder |-> JBool(TRUE)]

\* Whitespace of the JSON grammar.
IsJsonWs(c) == c \in {" ", "\n", "\t", "\r"}

IsDigit(c) == \E d \in 1..10 : DigitChars[d] = c

DigitValue(c) == (CHOOSE d \in 1..10 : DigitChars[d] = c) - 1

RECURSIVE StrToInt(_)
\* The number a run of decimal digits denotes.
StrToInt(ds) ==
  IF ds = <<>> THEN 0
  ELSE 10 * StrToInt(SubSeq(ds, 1, Len(ds) - 1)) + DigitValue(ds[Len(ds)])

\* The first index from i on that holds no JSON whitespace (Len(s) + 1 when
\* only whitespace is left).
SkipWs(s, i) ==
  LET stop == {j \in i..Len(s) : ~IsJsonWs(s[j])}
  IN IF stop = {} THEN Len(s) + 1 ELSE Min(stop)

ParseFail == [ok |-> FALSE, val |-> JNull, nxt |-> 0]

ParseOk(x, i) == [ok |-> TRUE, val |-> x, nxt |-> i]

RECURSIVE ParseValue(_, _)
RECURSIVE ParseItems(_, _)
\* One JSON value starting at index i: an array, an object literal (a letter
\* of ObjLetters), a string without escapes, an unsigned integer, or one of
\* null, true, false; anything else is a syntax error.
ParseValue(s, i) ==
  IF i > Len(s) THEN ParseFail
  ELSE IF s[i] = "["
    THEN LET j == SkipWs(s, i + 1)
         IN IF j <= Len(s) /\ s[j] = "]" THEN ParseOk(JArr(<<>>), j + 1)
            ELSE ParseItems(s, j)
  ELSE IF s[i] \in ObjLetters THEN ParseOk(JObj(s[i]), i + 1)
  ELSE IF s[i] = "\""
    THEN LET closes == {j \in (i + 1)..Len(s) : s[j] = "\""}
         IN IF closes = {} THEN ParseFail
            ELSE LET j == Min(closes)
                 IN IF \E k \in (i + 1)..(j - 1) : s[k] \in {"\n", "\t", "\r"}
                    THEN ParseFail
                    ELSE ParseOk(JStr(SubSeq(s, i + 1, j - 1)), j + 1)
  ELSE IF IsDigit(s[i])
    THEN IF s[i] = "0" THEN ParseOk(JNum(0), i + 1)
         ELSE LET stop == {j \in i..Len(s) : ~IsDigit(s[j])}
                  e == IF stop = {} THEN Len(s) + 1 ELSE Min(stop)
              IN ParseOk(JNum(StrToInt(SubSeq(s, i, e - 1))), e)
  ELSE IF MatchesAt(s, i, <<"n", "u", "l", "l">>, FALSE)
    THEN ParseOk(JNull, i + 4)
  ELSE IF MatchesAt(s, i, <<"t", "r", "u", "e">>, FALSE)
    THEN ParseOk(JBool(TRUE), i + 4)
  ELSE IF MatchesAt(s, i, <<"f", "a", "l", "s", "e">>, FALSE)
    THEN ParseOk(JBool(FALSE), i + 5)
  ELSE ParseFail

\* The elements of an array from index i (the first element) to its "]".
ParseItems(s, i) ==
  LET r == ParseValue(s, i)
  IN IF ~r.ok THEN ParseFail
     ELSE LET k == SkipWs(s, r.nxt)
          IN IF k > Len(s) THEN ParseFail
             ELSE IF s[k] = "]" THEN ParseOk(JArr(<<r.val>>), k + 1)
             ELSE IF s[k] = ","
               THEN LET rest == ParseItems(s, SkipWs(s, k + 1))
                    IN IF ~rest.ok THEN ParseFail
                       ELSE ParseOk(JArr(<<r.val>> \o rest.val.items), rest.nxt)
             ELSE ParseFail

\* JSON.parse(raw): ok is FALSE where it throws a SyntaxError.
JSONParse(raw) ==
  LET r == ParseValue(raw, SkipWs(raw, 1))
  IN IF r.ok /\ SkipWs(raw, r.nxt) > Len(raw) THEN r ELSE ParseFail


\* ------------------------------------------------- double-precision numbers

\* A finite double that is not negative: zero, or the 53 bits sig of its
\* significand, most significant first and sig[1] = 1, with exp the power of
\* two of sig[1]: its value is the sum of sig[i] * 2^(exp - i + 1).
SignificandBits == 53

DZero == [zero |-> TRUE, exp |-> 0, sig |-> <<>>]

RECURSIVE Pow2(_)
Pow2(k) == IF k = 0 THEN 1 ELSE 2 * Pow2(k - 1)

RECURSIVE BitsToInt(_)
BitsToInt(bs) ==
  IF bs = <<>> THEN 0
  ELSE 2 * BitsToInt(SubSeq(bs, 1, Len(bs) - 1)) + bs[Len(bs)]

RECURSIVE ToBits(_)
\* The binary digits of a natural number, none for 0.
ToBits(n) == IF n = 0 THEN <<>> ELSE ToBits(n \div 2) \o <<n % 2>>

\* bs + 1 on a significand; carry is TRUE when it overflowed to 1 0 ... 0.
IncBits(bs) ==
  LET zeros == {i \in 1..Len(bs) : bs[i] = 0}
  IN IF zeros = {}
     THEN [carry |-> TRUE, sig |-> [i \in 1..Len(bs) |-> IF i = 1 THEN 1 ELSE 0]]
     ELSE LET z == Max(zeros)
          IN [carry |-> FALSE,
              sig |-> [i \in 1..Len(bs) |->
                       IF i < z THEN bs[i] ELSE IF i = z THEN 1 ELSE 0]]

\* The double nearest to the exact value whose binary digits are bs (bs[1] =
\* 1, of weight 2^ex), ties to even: the IEEE 754 rounding of every
\* arithmetic operation.
RoundNearestEven(bs, ex) ==
  IF Len(bs) <= SignificandBits
  THEN [zero |-> FALSE, exp |-> ex,
        sig |-> [i \in 1..SignificandBits |-> IF i <= Len(bs) THEN bs[i] ELSE 0]]
  ELSE LET top == SubSeq(bs, 1, SignificandBits)
           guard == bs[SignificandBits + 1]
           sticky == \E i \in (SignificandBits + 2)..Len(bs) : bs[i] = 1
           up == guard = 1 /\ (sticky \/ top[SignificandBits] = 1)
           inc == IncBits(top)
       IN IF ~up THEN [zero |-> FALSE, exp |-> ex, sig |-> top]
          ELSE [zero |-> FALSE, exp |-> IF inc.carry THEN ex + 1 ELSE ex, sig |-> inc.sig]

\* Long division and multiplication work on groups of DigitBits binary
\* digits, a digit of base 2^DigitBits each.
DigitBits == 9

DigitBase == Pow2(DigitBits)

\* The binary digits of a sequence of digits of base 2^DigitBits.
DigitsToBits(ds) ==
  [i \in 1..(DigitBits * Len(ds)) |->
     (ds[((i - 1) \div DigitBits) + 1]
        \div Pow2(DigitBits - 1 - ((i - 1) % DigitBits))) % 2]

\* The digits of base 2^DigitBits of binary digits bs, Len(bs) a multiple of
\* DigitBits.
BitsToDigits(bs) ==
  [j \in 1..(Len(bs) \div DigitBits) |->
     BitsToInt(SubSeq(bs, DigitBits * (j - 1) + 1, DigitBits * j))]

RECURSIVE DivDigits(_, _, _)
\* k further digits of the quotient with remainder r and divisor d.
DivDigits(r, d, k) ==
  IF k = 0 THEN <<>>
  ELSE <<(r * DigitBase) \div d>> \o DivDigits((r * DigitBase) % d, d, k - 1)

RECURSIVE DivRem(_, _, _)
\* The remainder left after those k digits.
DivRem(r, d, k) == IF k = 0 THEN r ELSE DivRem((r * DigitBase) % d, d, k - 1)

\* Digits that hold the significand after its first bit, the guard bit and
\* at least one bit more.
QuotientDigits == (SignificandBits \div DigitBits) + 1

\* a / b in double arithmetic, for integers 0 <= a < 2^13 and 0 < b < 2^13
\* (exact as doubles): the quotient's first digits by long division, the
\* rest summed up in a sticky digit, rounded.
FDiv(a, b) ==
  IF a = 0 THEN DZero
  ELSE LET up == IF a >= b THEN Max({k \in 0..13 : b * Pow2(k) <= a}) ELSE 0
           down == IF a >= b THEN 0 ELSE Min({k \in 1..13 : a * Pow2(k) >= b})
           num == a * Pow2(down)
           den == b * Pow2(up)
           rem == num - den
           sticky == IF DivRem(rem, den, QuotientDigits) # 0 THEN 1 ELSE 0
       IN RoundNearestEven(
            <<1>> \o DigitsToBits(DivDigits(rem, den, QuotientDigits)) \o <<sticky>>,
            up - down)

RECURSIVE MulDigits(_, _, _, _)
\* The digits of ds * c, worked from the last digit ds[j] down with the
\* carry cy; the first digit of the result is the last carry.
MulDigits(ds, j, c, cy) ==
  IF j = 0 THEN <<cy>>
  ELSE MulDigits(ds, j - 1, c, (ds[j] * c + cy) \div DigitBase)
         \o <<(ds[j] * c + cy) % DigitBase>>

\* x * c in double arithmetic, c an integer from 1 to 2^10: the exact
\* product of the significand (padded with zeros to whole digits, which are
\* dropped again), rounded.
FMulInt(x, c) ==
  IF x.zero THEN DZero
  ELSE LET pad == (DigitBits - (Len(x.sig) % DigitBits)) % DigitBits
           ds == BitsToDigits(x.sig \o [i \in 1..pad |-> 0])
           prod == MulDigits(ds, Len(ds), c, 0)
           low == DigitsToBits(Tail(prod))
           bits == ToBits(Head(prod)) \o SubSeq(low, 1, Len(low) - pad)
       IN RoundNearestEven(bits, x.exp + (Len(bits) - Len(x.sig)))

\* Math.round of a double from 0 to 2^30: the integer part, plus one when
\* the fraction is a half or more.
MathRound(x) ==
  IF x.zero \/ x.exp < -1 THEN 0
  ELSE IF x.exp = -1 THEN 1
  ELSE BitsToInt(SubSeq(x.sig, 1, x.exp + 1)) + x.sig[x.exp + 2]


\* ---------------------------------------------------------------- aggregator

\* A number the handler computes: an integer, or NaN.
Int0(x) == [nan |-> FALSE, int |-> x]

NaN == [nan |-> TRUE, int |-> 0]

\* q.<name> for an element q of the parsed array: a field of an object
\* literal, undefined on any other value that is not null.
Field(q, name) == IF q.ty = "object" THEN ObjLit(q.lit)[name] ELSE Undefined

\* x += q.<field>: any operand that is no number makes the sum NaN.
Plus(x, f) == IF ~x.nan /\ f.ty = "number" THEN Int0(x.int + f.num) ELSE NaN

\* The truth value of a value in a condition.
Truthy(x) ==
  CASE x.ty = "number" -> x.num # 0
    [] x.ty = "string" -> x.str # <<>>
    [] x.ty = "boolean" -> x.bool
    [] x.ty \in {"array", "object"} -> TRUE
    [] OTHER -> FALSE

\* The property key a truthy bloom value is turned into.
BloomKey(x) ==
  CASE x.ty = "string" -> x.str
    [] x.ty = "number" -> IntToStr(x.num)
    [] OTHER -> <<"t", "r", "u", "e">>

\* bloomCounts[key] = (bloomCounts[key] || 0) + 1, on the properties in the
\* order of their creation.
IncCount(bc, k) ==
  IF \E i \in 1..Len(bc) : bc[i].key = k
  THEN [i \in 1..Len(bc) |->
          IF bc[i].key = k THEN [key |-> k, count |-> bc[i].count + 1]
          ELSE bc[i]]
  ELSE Append(bc, [key |-> k, count |-> 1])

\* The state of the forEach loop before its first element.
AccInit ==
  [totalScore |-> Int0(0), spelling |-> Int0(0), grammar |-> Int0(0),
   clarity |-> Int0(0), bloomCounts |-> <<>>, higherOrderCount |-> 0]

\* The body of the forEach callback on element q.
Accumulate(acc, q) ==
  [totalScore |-> Plus(acc.totalScore, Field(q, "overallScore")),
   spelling |-> Plus(acc.spelling, Field(q, "spellingScore")),
   grammar |-> Plus(acc.grammar, Field(q, "grammarScore")),
   clarity |-> Plus(acc.clarity, Field(q, "clarityScore")),
   bloomCounts |->
     IF Truthy(Field(q, "bloom"))
     THEN IncCount(acc.bloomCounts, BloomKey(Field(q, "bloom")))
     ELSE acc.bloomCounts,
   higherOrderCount |->
     IF Truthy(Field(q, "higherOrder")) THEN acc.higherOrderCount + 1
     ELSE acc.higherOrderCount]

RECURSIVE ForEach(_, _)
\* evaluations.forEach over the array evals, from the state acc.
ForEach(evals, acc) ==
  IF evals = <<>> THEN acc
  ELSE Accumulate(ForEach(SubSeq(evals, 1, Len(evals) - 1), acc), evals[Len(evals)])

\* Whether the callback throws on some element: reading a property of null.
ForEachThrows(evals) == \E i \in 1..Len(evals) : evals[i].ty = "null"

\* A property key that is an array index: Object.entries lists these first,
\* in ascending order (keys of at most 9 digits here).
IsIndexKey(k) ==
  /\ k # <<>>
  /\ Len(k) <= 9
  /\ \A i \in 1..Len(k) : IsDigit(k[i])
  /\ (Len(k) = 1 \/ k[1] # "0")

RECURSIVE PickAt(_, _)
\* The elements of es at the indices of I, in the order of es.
PickAt(es, I) ==
  IF I = {} THEN <<>>
  ELSE <<es[Min(I)]>> \o PickAt(es, I \ {Min(I)})

RECURSIVE SortByIndex(_)
\* Entries with index keys, in ascending order of the index.
SortByIndex(es) ==
  IF es = <<>> THEN <<>>
  ELSE LET lo == Min({StrToInt(es[i].key) : i \in 1..Len(es)})
           los == {i \in 1..Len(es) : StrToInt(es[i].key) = lo}
       IN PickAt(es, los) \o SortByIndex(PickAt(es, (1..Len(es)) \ los))

\* Object.entries(bloomCounts): index keys ascending, then the other keys in
\* the order of their creation.
OwnEntries(bc) ==
  LET idx == {i \in 1..Len(bc) : IsIndexKey(bc[i].key)}
  IN SortByIndex(PickAt(bc, idx)) \o PickAt(bc, (1..Len(bc)) \ idx)

RECURSIVE SortByCountDesc(_)
\* entries.sort((a, b) => b[1] - a[1]): by count, highest first; the sort is
\* stable, entries of equal count keep their order.
SortByCountDesc(es) ==
  IF es = <<>> THEN <<>>
  ELSE LET hi == Max({es[i].count : i \in 1..Len(es)})
           his == {i \in 1..Len(es) : es[i].count = hi}
       IN PickAt(es, his) \o SortByCountDesc(PickAt(es, (1..Len(es)) \ his))

NotAvailable == <<"N", "/", "A">>

\* mostCommonBloom: the key of the first sorted entry, or "N/A".
MostCommonBloom(bc) ==
  LET sorted == SortByCountDesc(OwnEntries(bc))
  IN IF sorted = <<>> \/ sorted[1].key = <<>> THEN NotAvailable
     ELSE sorted[1].key

\* avg(val): Math.round(val / evaluations.length) when the length is not 0,
\* else 0.
avg(sum, len) ==
  IF len = 0 THEN Int0(0)
  ELSE IF sum.nan THEN NaN
  ELSE Int0(MathRound(FDiv(sum.int, len)))

\* Math.round((higherOrderCount / n) * 100); 0 / 0 is NaN.
HigherOrderScore(hoc, len) ==
  IF len = 0 THEN NaN ELSE Int0(MathRound(FMulInt(FDiv(hoc, len), 100)))

\* A computed number in the JSON of the response: NaN is written as null.
JsonNumber(x) == IF x.nan THEN JNull ELSE JNum(x.int)

CoMatchScore == 70

SyllabusMatchScore == 75

\* metrics: the seven label/score pairs, as serialized.
Metrics(acc, len) ==
  <<[label |-> "Spelling", score |-> JsonNumber(avg(acc.spelling, len))],
    [label |-> "Grammar", score |-> JsonNumber(avg(acc.grammar, len))],
    [label |-> "Clarity", score |-> JsonNumber(avg(acc.clarity, len))],
    [label |-> "Bloom Level", score |-> JStr(MostCommonBloom(acc.bloomCounts))],
    [label |-> "Higher Order",
     score |-> JsonNumber(HigherOrderScore(acc.higherOrderCount, len))],
    [label |-> "CO Match", score |-> JNum(CoMatchScore)],
    [label |-> "Syllabus Match", score |-> JNum(SyllabusMatchScore)]>>

\* The success response for the parsed array evals.
Report(evals) ==
  LET totals == ForEach(evals, AccInit)
      size == Len(evals)
  IN [kind |-> "report", status |-> 200,
      totalScore |-> JsonNumber(avg(totals.totalScore, size)),
      metrics |-> Metrics(totals, size),
      unitCoverage |-> "3 / 5", difficulty |-> "Medium",
      evaluations |-> evals]

\* ------------------------------------------------------------------ responses

ErrorResponse(code, msg) == [kind |-> "error", status |-> code, error |-> msg]

\* The 400 response of the input validation.
InvalidInput == ErrorResponse(400, "Invalid input data.")

\* The 500 response for a completion without choices or message.
NoResponseFromAI == ErrorResponse(500, "No response from AI.")

\* The 500 response of the catch around JSON.parse.
CouldNotBeParsed == ErrorResponse(500, "AI response could not be parsed.")

\* A handler without the outer catch: what was thrown leaves POST.
Rethrow == [kind |-> "fault", thrown |-> "TypeError"]

\* The response of the outer catch, whatever was thrown inside the try.
Catch == ErrorResponse(500, "Evaluation failed.")

\* ---------------------------------------------------------------- the request

\* const { outcomes, syllabus, set1 } = <parsed body>: a property of a value
\* that is no object is undefined (destructuring null throws, see Validate).
Destructure(b, name) == IF b.kind = "object" THEN b[name] ELSE Undefined

IsString(x) == x.ty = "string"

\* The three typeof checks of the validation.
InputIsValid(b) ==
  /\ IsString(Destructure(b, "outcomes"))
  /\ IsString(Destructure(b, "syllabus"))
  /\ IsString(Destructure(b, "set1"))

\* Whether the completion passes the guard
\* !completion || !completion.choices || !completion.choices[0].message;
\* reading message of a missing first choice throws instead.
GuardThrows(c) == c.kind = "emptychoices"

GuardRejects(c) == c.kind \in {"nocompletion", "nochoices", "nomessage"}

\* Lines 91 to 134 on the parsed value: a value that is no array, or an
\* array with a null element, throws into the outer catch.
Aggregation(val) ==
  IF val.ty # "array" \/ ForEachThrows(val.items) THEN Catch
  ELSE Report(val.items)

\* What the handler returns once the Evaluator call has resolved with the
\* completion c, with the text handed to JSON.parse and the value parsed.
AfterCompletion(c) ==
  IF GuardThrows(c) THEN [resp |-> Catch, cand |-> <<>>, parsed |-> Undefined]
  ELSE IF GuardRejects(c)
    THEN [resp |-> NoResponseFromAI, cand |-> <<>>, parsed |-> Undefined]
  ELSE LET text == Extract(IF c.content.ty = "string" THEN c.content.str ELSE <<>>)
           res == JSONParse(text)
       IN IF ~res.ok
            THEN [resp |-> CouldNotBeParsed, cand |-> text, parsed |-> Undefined]
          ELSE [resp |-> Aggregation(res.val), cand |-> text, parsed |-> res.val]


\* ---------------------------------------------------------------------- inputs

RECURSIVE TextsUpTo(_, _)
\* Every concatenation of at most k of the given pieces.
TextsUpTo(pieces, k) ==
  IF k = 0 THEN {<<>>}
  ELSE LET shorter == TextsUpTo(pieces, k - 1)
       IN shorter \cup {t \o p : t \in shorter, p \in pieces}

\* Characters of the question blocks.
BlockChars == {<<"a">>, <<" ">>, <<"\n">>, <<"U+2022">>}

QuestionBlocks == TextsUpTo(BlockChars, MaxBlockLen)

\* A request body: one whose reading rejects (kind "throws"), the JSON null,
\* a JSON number, or an object with the three fields.
Body(k, o, y, q) ==
  [kind |-> k, outcomes |-> o, syllabus |-> y, set1 |-> q]

SomeText == <<"x">>

FieldValues == {Undefined, JNum(7), JStr(SomeText)}

\* The body with both other fields textual and the question block s.
ValidBody(s) == Body("object", JStr(SomeText), JStr(SomeText), JStr(s))

SampleBlock == <<"a", "\n", "\n", "a">>

Bodies ==
  {Body(k, Undefined, Undefined, Undefined) : k \in {"throws", "null", "number"}}
    \cup {Body("object", o, y, q) :
            o \in FieldValues, y \in FieldValues,
            q \in FieldValues \cup {JStr(<<>>), JStr(SampleBlock)}}

BlockBodies == {ValidBody(s) : s \in QuestionBlocks}

\* What the Evaluator does with the one call: the call rejects, or resolves
\* with no completion, a completion without choices, with an empty list of
\* choices, with a first choice without message, or with a message whose
\* content is null or a text.
Outcome(k, c) == [kind |-> k, content |-> c]

Message(text) == Outcome("message", JStr(text))

FailureOutcomes ==
  {Outcome(k, JNull) :
     k \in {"throws", "nocompletion", "nochoices", "emptychoices", "nomessage",
            "message"}}

\* Pieces of the Evaluator texts of the extraction inputs.
TextPieces ==
  {FenceJson, <<"U+0060", "U+0060", "U+0060", "J", "S", "O", "N">>, Fence,
   <<"[">>, <<"]">>, <<",">>, <<" ">>, <<"\n">>, <<"A">>, <<"7">>, <<"x">>}

PieceTexts == TextsUpTo(TextPieces, MaxPieces)

\* The text of a JSON array of the object literals named by letters.
ArrayText(letters) ==
  IF letters = <<>> THEN <<"[", "]">>
  ELSE [i \in 1..(2 * Len(letters) + 1) |->
          IF i = 1 THEN "["
          ELSE IF i = 2 * Len(letters) + 1 THEN "]"
          ELSE IF i % 2 = 0 THEN letters[i \div 2] ELSE ","]

LetterSeqs == UNION {[1..n -> ObjLetters] : n \in 0..MaxEvals}

ArrayTexts == {ArrayText(ls) : ls \in LetterSeqs}

\* k letters A followed by n - k letters B.
Run(n, k) == [i \in 1..n |-> IF i <= k THEN "A" ELSE "B"]

RunLetters == {Run(n, k) : n \in 1..MaxRun, k \in 0..MaxRun}

\* Texts that are no array of object literals.
OddTexts ==
  {<<"7">>, <<"A">>, <<"\"", "x", "\"">>, <<"n", "u", "l", "l">>,
   <<"t", "r", "u", "e">>, <<"[", "n", "u", "l", "l", "]">>,
   <<"[", "7", ",", "A", "]">>, <<"[", "A">>, <<" ">>,
   <<"x", " ">> \o FenceJson \o <<"\n", "[", "A", "]", "\n">> \o Fence}

SampleOutcomes == FailureOutcomes \cup {Message(t) : t \in ArrayTexts \cup OddTexts}

TextOutcomes == {Message(t) : t \in PieceTexts}

SampleOutcome == Message(ArrayText(<<"A", "B">>))

\* An answer that is no JSON.
BrokenOutcome == Message(<<"[", "A">>)

\* ------------------------------------------------------------------- behaviour

\* A request arrives: nothing read, nothing called, nothing returned.  The
\* inputs are every sample body with the failures of the Evaluator and two
\* answers, every question block with one answer, and one body with every
\* Evaluator outcome.
Init ==
  /\ pc = "start"
  /\ \/ body \in Bodies /\ evaluator \in FailureOutcomes \cup {SampleOutcome, BrokenOutcome}
     \/ body \in BlockBodies /\ evaluator = SampleOutcome
     \/ body = ValidBody(SampleBlock) /\ evaluator \in SampleOutcomes \cup TextOutcomes
  /\ calls = 0
  /\ questions = <<>>
  /\ userPrompt = <<>>
  /\ candidate = <<>>
  /\ parsedEvaluations = Undefined
  /\ out = <<>>

\* await req.json(), the destructuring, the validation, the segmentation and
\* the prompts: up to the call of the Evaluator.
Validate ==
  /\ pc = "start"
  /\ IF body.kind \in {"throws", "null"}
     THEN /\ out' = Append(out, Catch)
          /\ pc' = "done"
          /\ UNCHANGED <<questions, userPrompt>>
     ELSE IF ~InputIsValid(body)
     THEN /\ out' = Append(out, InvalidInput)
          /\ pc' = "done"
          /\ UNCHANGED <<questions, userPrompt>>
     ELSE /\ questions' = Segment(body.set1.str)
          /\ userPrompt' = BuildUserPrompt(Segment(body.set1.str))
          /\ pc' = "call"
          /\ UNCHANGED out
  /\ UNCHANGED <<body, evaluator, calls, candidate, parsedEvaluations>>

\* A handler that calls the Evaluator again after a rejected call.
CallEvaluatorAgain ==
  /\ pc = "call"
  /\ calls' = calls + 1
  /\ pc' = IF evaluator.kind = "throws" /\ calls = 0 THEN "call" ELSE "await"
  /\ UNCHANGED <<body, evaluator, questions, userPrompt, candidate, parsedEvaluations, out>>

\* openai.chat.completions.create(...) is invoked and awaited.
CallEvaluator ==
  /\ pc = "call"
  /\ calls' = calls + 1
  /\ pc' = "await"
  /\ UNCHANGED <<body, evaluator, questions, userPrompt, candidate, parsedEvaluations, out>>

\* The awaited call settles: a rejection goes to the outer catch; a
\* completion is checked, extracted, parsed and aggregated, and the handler
\* returns.
HandleCompletion ==
  /\ pc = "await"
  /\ IF evaluator.kind = "throws"
     THEN /\ out' = Append(out, Catch)
          /\ UNCHANGED <<candidate, parsedEvaluations>>
     ELSE LET after == AfterCompletion(evaluator)
          IN /\ out' = Append(out, after.resp)
             /\ candidate' = after.cand
             /\ parsedEvaluations' = after.parsed
  /\ pc' = "done"
  /\ UNCHANGED <<body, evaluator, calls, questions, userPrompt>>

Next == Validate \/ CallEvaluator \/ HandleCompletion

Spec == Init /\ [][Next]_vars

\* ----------------------------------------------------- aggregation of long arrays

\* The request after JSON.parse has returned the array of the object literals
\* named by letters.
Parsed(letters) ==
  /\ pc = "parsed"
  /\ body = ValidBody(SampleBlock)
  /\ evaluator = Message(ArrayText(letters))
  /\ calls = 1
  /\ questions = Segment(SampleBlock)
  /\ userPrompt = BuildUserPrompt(Segment(SampleBlock))
  /\ candidate = ArrayText(letters)
  /\ parsedEvaluations = JArr([i \in 1..Len(letters) |-> JObj(letters[i])])
  /\ out = <<>>

AggInit == \E letters \in RunLetters : Parsed(letters)

\* Lines 91 to 134: the aggregation of the parsed array and the response.
Aggregate ==
  /\ pc = "parsed"
  /\ out' = Append(out, Aggregation(parsedEvaluations))
  /\ pc' = "done"
  /\ UNCHANGED <<body, evaluator, calls, questions, userPrompt, candidate, parsedEvaluations>>

AggNext == Aggregate

AggSpec == AggInit /\ [][AggNext]_vars

\* -------------------------------------------------------------------- properties

\* The request has ended.
Done == pc = "done"

\* The one response of an ended request.
Response == out[1]

\* The score of the metric of a report with the given label.
MetricScore(resp, label) ==
  (CHOOSE m \in {resp.metrics[i] : i \in 1..Len(resp.metrics)} : m.label = label).score

MetricLabels ==
  <<"Spelling", "Grammar", "Clarity", "Bloom Level", "Higher Order", "CO Match",
    "Syllabus Match">>

\* C1: a request whose body was read and in which one of outcomes, syllabus
\* and set1 is missing or no string ends with the 400 response "Invalid input
\* data." and without any call of the Evaluator.
C1_InvalidInputRejected ==
  (Done /\ body.kind # "throws" /\ ~InputIsValid(body))
    => (out = <<InvalidInput>> /\ calls = 0)

\* The Evaluator call failed or resolved without usable message content.
NoUsableContent ==
  \/ evaluator.kind # "message"
  \/ evaluator.content.ty # "string"
  \/ evaluator.content.str = <<>>

\* C2: when the Evaluator call fails or resolves without usable message
\* content, the request ends with the 500 response "No response from AI.",
\* never with a report.
C2_NoContentIsNoResponse ==
  (Done /\ calls = 1 /\ NoUsableContent) => out = <<NoResponseFromAI>>

\* The text handed to the parser does not deserialize to an array.
CandidateIsNoArray ==
  ~JSONParse(candidate).ok \/ JSONParse(candidate).val.ty # "array"

\* C3: when the extracted candidate does not deserialize to an array, the
\* request ends with the 500 response "AI response could not be parsed.".
C3_NonArrayIsParseError ==
  (Done /\ calls = 1 /\ evaluator.kind = "message" /\ CandidateIsNoArray)
    => out = <<CouldNotBeParsed>>

\* C4: with an empty parsed array the report has totalScore 0, the metrics
\* Spelling, Grammar, Clarity and Higher Order are the number 0, and Bloom
\* Level is "N/A".
C4_EmptyReportIsZero ==
  (Done /\ parsedEvaluations = JArr(<<>>))
    => /\ Response.kind = "report"
       /\ Response.totalScore = JNum(0)
       /\ \A l \in {"Spelling", "Grammar", "Clarity", "Higher Order"} :
            MetricScore(Response, l) = JNum(0)
       /\ MetricScore(Response, "Bloom Level") = JStr(NotAvailable)

\* A complete report: totalScore, the seven metrics, unitCoverage, difficulty
\* and evaluations, and no error.
IsCompleteReport(r) ==
  /\ DOMAIN r = {"kind", "status", "totalScore", "metrics", "unitCoverage",
                 "difficulty", "evaluations"}
  /\ r.kind = "report"
  /\ Len(r.metrics) = Len(MetricLabels)
  /\ \A i \in 1..Len(MetricLabels) : r.metrics[i].label = MetricLabels[i]

\* A structured error payload: a status and an error message, no report field.
IsStructuredError(r) ==
  /\ DOMAIN r = {"kind", "status", "error"}
  /\ r.kind = "error"
  /\ r.error \in {"Invalid input data.", "No response from AI.",
                  "AI response could not be parsed.", "Evaluation failed."}

\* No response before the end, one at the end, a complete report or a
\* structured error.
OneWholeResponse ==
  IF Done
  THEN Len(out) = 1 /\ (IsCompleteReport(Response) \/ IsStructuredError(Response))
  ELSE out = <<>>

\* How far the request has come.
Stage(p) ==
  CASE p = "start" -> 0
    [] p = "call" -> 1
    [] p = "await" -> 2
    [] p = "parsed" -> 3
    [] p = "done" -> 4

\* The places of a request that has not ended; each has its step.
Running == {"start", "call", "await", "parsed"}

\* C5: whatever the body and whatever the Evaluator does, a request that has
\* not ended is at a place with a step to take, every step brings it nearer
\* its end, and it ends with exactly one response, which is a complete
\* report or a structured error and nothing else.
C5_ExactlyOneWholeResponse ==
  /\ [](OneWholeResponse /\ (~Done => pc \in Running))
  /\ [][Stage(pc') > Stage(pc)]_vars

\* C5 witness: the Evaluator call was rejected and the request has ended
\* with the structured error of the outer catch.
C5_Witness ==
  Done /\ calls = 1 /\ evaluator.kind = "throws" /\ out = <<Catch>>

\* C6: the Evaluator is called at most once; exactly once when the three
\* fields are strings; and a failed call or an answer that cannot be parsed
\* ends the request with an error after that one call.
C6_AtMostOneCall ==
  /\ calls <= 1
  /\ (Done /\ body.kind = "object" /\ InputIsValid(body)) => calls = 1
  /\ (Done /\ calls >= 1 /\ (evaluator.kind = "throws" \/ CandidateIsNoArray))
       => (calls = 1 /\ Len(out) = 1 /\ Response.kind = "error")

\* C6 witness: a request with three strings and no question has ended after
\* one call whose answer could not be parsed.
C6_Witness ==
  /\ Done
  /\ InputIsValid(body)
  /\ questions = <<>>
  /\ calls = 1
  /\ out = <<CouldNotBeParsed>>

\* a / n rounded to the nearest integer, halves up, for a >= 0 and n > 0.
RoundHalfUp(a, n) == (2 * a + n) \div (2 * n)

RECURSIVE SumOf(_, _)
\* The sum of the field name over the evaluations, all of them numbers.
SumOf(items, name) ==
  IF items = <<>> THEN 0
  ELSE Field(Head(items), name).num + SumOf(Tail(items), name)

\* The number of evaluations with higherOrder true.
HigherOrderCount(items) ==
  Cardinality({i \in 1..Len(items) : Field(items[i], "higherOrder") = JBool(TRUE)})

\* The parsed array is non-empty and its four scores are integers from 0 to
\* 100 in every element.
ScoresInRange(items) ==
  /\ items # <<>>
  /\ \A i \in 1..Len(items) :
       \A f \in {"overallScore", "spellingScore", "grammarScore", "clarityScore"} :
         /\ Field(items[i], f).ty = "number"
         /\ Field(items[i], f).num \in 0..100

\* The four averages of the report are the sums divided by n, rounded half up.
AveragesRoundHalfUp ==
  (Done /\ ScoresInRange(parsedEvaluations.items))
    => LET items == parsedEvaluations.items
           n == Len(items)
       IN /\ Response.totalScore = JNum(RoundHalfUp(SumOf(items, "overallScore"), n))
          /\ MetricScore(Response, "Spelling")
               = JNum(RoundHalfUp(SumOf(items, "spellingScore"), n))
          /\ MetricScore(Response, "Grammar")
               = JNum(RoundHalfUp(SumOf(items, "grammarScore"), n))
          /\ MetricScore(Response, "Clarity")
               = JNum(RoundHalfUp(SumOf(items, "clarityScore"), n))

\* Higher Order is 100 * count / n, rounded half up.
HigherOrderIsPercentage ==
  (Done /\ ScoresInRange(parsedEvaluations.items))
    => MetricScore(Response, "Higher Order")
         = JNum(RoundHalfUp(100 * HigherOrderCount(parsedEvaluations.items),
                            Len(parsedEvaluations.items)))

\* C7: for a non-empty array with integer scores from 0 to 100, totalScore,
\* Spelling, Grammar and Clarity are the rounded averages of their fields and
\* Higher Order is round(100 * count / n).
C7_RoundedAverages == AveragesRoundHalfUp /\ HigherOrderIsPercentage

\* The bloom labels of the evaluations that carry one, in their order.
Labels(items) ==
  LET blooms == [i \in 1..Len(items) |-> Field(items[i], "bloom")]
      carried == SelectSeq(blooms, Truthy)
  IN [i \in 1..Len(carried) |-> BloomKey(carried[i])]

\* How often the label l occurs in ls.
Occurrences(ls, l) == Cardinality({i \in 1..Len(ls) : ls[i] = l})

\* The label with the highest count, the earliest in the sequence among
\* those with that count; "N/A" without labels.
DominantLabel(items) ==
  LET ls == Labels(items)
      best == Max({Occurrences(ls, ls[i]) : i \in 1..Len(ls)})
  IN IF ls = <<>> THEN NotAvailable
     ELSE ls[Min({i \in 1..Len(ls) : Occurrences(ls, ls[i]) = best})]

\* C8: the Bloom Level of a report is the label with the highest count, on a
\* tie the one that occurs first in the evaluations, whatever the labels are;
\* it is "N/A" when no evaluation carries a label.
C8_BloomLevelIsDominantLabel ==
  (Done /\ Len(out) = 1 /\ Response.kind = "report")
    => MetricScore(Response, "Bloom Level")
         = JStr(DominantLabel(parsedEvaluations.items))

\* The candidate of a raw text: the text without its fence markers, trimmed;
\* of that, the part from the first "[" to the last "]" when a "[" is
\* followed by a "]", else all of it.
CandidateOf(raw) ==
  LET text == StripFences(raw)
      opens == {i \in 1..Len(text) : text[i] = "["}
      closes == {j \in 1..Len(text) : text[j] = "]"}
  IN IF \E i \in opens : \E j \in closes : i < j
     THEN SubSeq(text, Min(opens), Max(closes))
     ELSE text

\* C9: the text handed to the parser is the candidate of the raw Evaluator
\* text, for every raw text; nothing is put in its place.
C9_CandidateIsExtractedText ==
  (Done /\ calls = 1 /\ evaluator.kind = "message" /\ evaluator.content.ty = "string")
    => candidate = CandidateOf(evaluator.content.str)

NonEmpty(t) == t # <<>>

\* The blocks of a question text between blank lines, each trimmed, the
\* empty ones dropped, in their order.
TrimmedBlocks(set1) ==
  LET blocks == SplitBlocks(set1)
  IN SelectSeq([i \in 1..Len(blocks) |-> Trim(sanitize(blocks[i]))], NonEmpty)

\* C10: the questions are the trimmed non-empty blocks of the question text
\* in their order, none with whitespace at either end, and the user prompt
\* numbers them from 1, one per line.
C10_QuestionsAreTrimmedBlocks ==
  (pc # "start" /\ body.kind = "object" /\ InputIsValid(body))
    => /\ questions = TrimmedBlocks(body.set1.str)
       /\ \A i \in 1..Len(questions) : questions[i] = Trim(questions[i])
       /\ userPrompt = Join([i \in 1..Len(questions) |->
                               IntToStr(i) \o <<".", " ">> \o questions[i]],
                            <<"\n">>)
=============================================================================
